---- MODULE Spec2Model ----
(***************************************************************************)
(* PreInscriberWithProtection (ordit-sdk): the three-transaction CPFP      *)
(* chain builder.  buildTransactions is modelled as a state machine whose  *)
(* steps are the synchronous code blocks between its await points; the     *)
(* instance fields buyerUtxos, buyerCommitPaymentAddress and firstTxId are *)
(* shared by every call on the instance.  PSBTs are records of inputs and  *)
(* outputs; amounts are satoshis; sizes are vbytes.                        *)
(***************************************************************************)
EXTENDS Integers, Sequences, FiniteSets, TLC

VARIABLES
    inscriptionsPsbts,          \* this.inscriptionsPsbts (seller PSBTs)
    buyerAddressType,           \* getAddressType(this.buyerAddress)
    effectiveFeeRate,           \* this.effectiveFeeRate
    extraOutputs,               \* this.extraOutputs
    inscriptionIndex,           \* datasource: the records at each seller PSBT's outpoint
    buyerUtxos,                 \* this.buyerUtxos
    buyerCommitPaymentAddress,  \* this.buyerCommitPaymentAddress
    firstTxId,                  \* this.firstTxId
    calls,                      \* buildTransactions calls made on the instance
    pc,                         \* per call: position in buildTransactions
    uniqueId,                   \* per call: the uniqueId argument
    pendingIdx,                 \* per call: index lookups requested and not yet answered
    CPFPFunding,                \* per call: let CPFPFunding
    extraCPFPFunding,           \* per call: let extraCPFPFunding
    iteration,                  \* per call: completed passes of the do-while body
    coinInputs,                 \* per call: inputs of createFirstTransaction (from buyerUtxos)
    firstOutputs,               \* per call: firstTransactionOutputs
    firstTx,                    \* per call: firstTransactionPSBTB64
    secondTxs,                  \* per call: secondTransactionPSBTB64s
    thirdTx,                    \* per call: thirdTransactionPSBTB64
    response,                   \* per call: the value buildTransactions resolves to
    error,                      \* per call: the message buildTransactions rejects with
    unspentsAsked,              \* per call: getUnspents requests sent to the datasource
    utxosBefore,                \* per call: this.buyerUtxos when getBuyerUtxos was called
    fetchedUtxos,               \* per call: the spendableUTXOs its getBuyerUtxos stored
    sellerCall,                 \* the arguments of a createInscriptionPSBT call
    sellerResult,               \* what that call resolves to or rejects with
    sellerPc,                   \* the await that call is suspended at
    escrowResults               \* static getEscrowTaprootAddress calls made so far

vars == <<inscriptionsPsbts, buyerAddressType, effectiveFeeRate, extraOutputs,
          inscriptionIndex, buyerUtxos, buyerCommitPaymentAddress, firstTxId, calls, pc, uniqueId,
          pendingIdx, CPFPFunding, extraCPFPFunding, iteration, coinInputs,
          firstOutputs, firstTx, secondTxs, thirdTx, response, error,
          unspentsAsked, utxosBefore, fetchedUtxos, sellerCall, sellerResult, sellerPc, escrowResults>>

config == <<inscriptionsPsbts, buyerAddressType, effectiveFeeRate, extraOutputs,
            inscriptionIndex, sellerCall, sellerResult, sellerPc, escrowResults>>

(***************************************************************************)
(* Bounds of the model.                                                    *)
(***************************************************************************)
MaxCalls == 2

(***************************************************************************)
(* Program constants.                                                      *)
(***************************************************************************)
BASE_FEERATE == 2
InitialCPFPFunding == 600
dummyAmount == 600
SIGHASH_ALL == 1
SIGHASH_ALL_ANYONECANPAY == 129

CallIds == 1..MaxCalls

(***************************************************************************)
(* Generic helpers.                                                        *)
(***************************************************************************)
\* reduce((acc, x) => acc + x.value, 0)
RECURSIVE SumValues(_)
SumValues(s) == IF s = <<>> THEN 0 ELSE Head(s).value + SumValues(Tail(s))

\* Math.ceil(n / d) for d > 0
CeilDiv(n, d) == -((-n) \div d)

Abs(x) == IF x < 0 THEN -x ELSE x

None == [none |-> TRUE]

(***************************************************************************)
(* Keys, scripts and addresses.                                            *)
(***************************************************************************)
\* A public key is <<parity byte, x coordinate>>; toXOnly drops the parity byte.
toXOnly(publicKey) == publicKey[2]

buyerPublicKey == <<"02", "buyerX">>
escrowPublicKey == <<"03", "escrowX">>

NoRoot == <<>>
NoKey == ""

\* An address / output script: its type, the key or hash it commits to and,
\* for a script-tree taproot output, the merkle root of the tree.
Addr(type, key, root) == [type |-> type, key |-> key, root |-> root]

NoAddress == Addr("nonstandard", "", NoRoot)

\* this.network and this.chain of the instance (chain ?? "bitcoin")
thisNetwork == "regtest"
thisChain == "bitcoin"

\* getNetwork(chain === "fractal-bitcoin" ? "mainnet" : network): the network
\* whose encoding an address string is written in
AddressNetwork(network, chain) == IF chain = "fractal-bitcoin" THEN "mainnet" ELSE network

\* payment.address: the output script written as an address of a network
AddressOn(net, script) ==
    [network |-> net, type |-> script.type, key |-> script.key, root |-> script.root]

\* the output script an address string stands for (addOutput({address, value}))
toOutputScript(address) == Addr(address.type, address.key, address.root)

buyerAddress == Addr(buyerAddressType, "buyer", NoRoot)
receiveAddress == Addr("p2tr", "buyerReceive", NoRoot)
sellerAddress == Addr("p2wpkh", "seller", NoRoot)
sellerPayAddress == Addr("p2wpkh", "sellerPay", NoRoot)

\* bitcoin.payments.p2tr({internalPubkey, scriptTree: [redeem leaf, data leaf]}):
\* hash is the merkle root of the two leaves, address commits to key and root.
TapTreeHash(xkey, mediaContent) == <<"checksig", xkey, "envelope", xkey>> \o mediaContent

P2TRPayment(xkey, mediaContent) ==
    LET h == TapTreeHash(xkey, mediaContent)
    IN  [address |-> Addr("p2tr", xkey, h), output |-> Addr("p2tr", xkey, h), hash |-> h]
(***************************************************************************)
(* Transactions.  A PSBT is [ins, outs]; an input carries the outpoint it  *)
(* spends (hash, index) and its PSBT fields; value is                      *)
(* witnessUtxo?.value ?? 0.                                                *)
(***************************************************************************)
Input(hash, index, hasWitness, script, value, sighashType, tapInternalKey, tapMerkleRoot, redeemScript) ==
    [hash |-> hash, index |-> index, hasWitness |-> hasWitness, script |-> script,
     value |-> IF hasWitness THEN value ELSE 0, sighashType |-> sighashType,
     tapInternalKey |-> tapInternalKey, tapMerkleRoot |-> tapMerkleRoot,
     redeemScript |-> redeemScript]

Output(address, value) == [address |-> address, value |-> value]

\* The id of a transaction that is not built here (a confirmed one).
ExternalTxid(name) == [tag |-> name, ins |-> <<>>, outs |-> <<>>]

\* Transaction.getId(): commits to the outpoints spent, the input scripts
\* (empty unless set with setInputScript) and the outputs, not to witnesses.
TxId(tx, withInputScripts) ==
    [tag |-> "tx",
     ins |-> [i \in 1..Len(tx.ins) |->
                <<tx.ins[i].hash, tx.ins[i].index,
                  withInputScripts /\ tx.ins[i].redeemScript>>],
     outs |-> tx.outs]

NoTx == [ins |-> <<>>, outs |-> <<>>]
NoTxid == ExternalTxid("undefined")
NoPayment == [address |-> NoAddress, output |-> NoAddress, hash |-> NoRoot]

isTaproot(input) == input.hasWitness /\ input.script.type = "p2tr"

(***************************************************************************)
(* The coin-selection library (bitcoinselect): size estimate, funding      *)
(* estimate and accumulative selection.  A fee rate in sat/vB is the       *)
(* double nearest to num / den, kept as the pair it was divided from.      *)
(***************************************************************************)
Rate(num, den) == [num |-> num, den |-> den]

inputBytes(input) == IF isTaproot(input) THEN 58 ELSE 148

scriptLength(address) ==
    CASE address.type = "p2tr" -> 34
      [] address.type = "p2wsh" -> 34
      [] address.type = "p2wpkh" -> 22
      [] address.type = "p2sh" -> 23
      [] OTHER -> 25

outputBytes(output) == 9 + scriptLength(output.address)

RECURSIVE SumInputBytes(_)
SumInputBytes(ins) ==
    IF ins = <<>> THEN 0 ELSE inputBytes(Head(ins)) + SumInputBytes(Tail(ins))

RECURSIVE SumOutputBytes(_)
SumOutputBytes(outs) ==
    IF outs = <<>> THEN 0 ELSE outputBytes(Head(outs)) + SumOutputBytes(Tail(outs))

\* utils.transactionBytes(inputs, outputs)
transactionBytes(ins, outs) == 10 + SumInputBytes(ins) + SumOutputBytes(outs)

\* A fee rate num / den is a JavaScript number: the quotient rounded to the
\* nearest double (53 significant bits, ties to even).  The following
\* operators compute that rounding with remainders only.

\* floor(log2(a / b)) for positive a and b
RECURSIVE FloorLog2(_, _)
FloorLog2(a, b) ==
    IF a >= b THEN (IF a < 2 * b THEN 0 ELSE 1 + FloorLog2(a, 2 * b))
    ELSE FloorLog2(2 * a, b) - 1

\* 2^e for a natural e
RECURSIVE Pow2(_)
Pow2(e) == IF e = 0 THEN 1 ELSE 2 * Pow2(e - 1)

\* 2^e modulo m
RECURSIVE Pow2Mod(_, _)
Pow2Mod(e, m) == IF e = 0 THEN 1 % m ELSE (2 * Pow2Mod(e - 1, m)) % m

\* |double(num / den)| - |num / den|, in units of (last place of the
\* quotient) / den: positive when the quotient was rounded away from zero
DivisionError(num, den) ==
    LET a == Abs(num)
        k == FloorLog2(a, den)
        rem == ((a % den) * Pow2Mod(52 - k, den)) % den
        odd == ((a % (2 * den)) * Pow2Mod(52 - k, 2 * den)) % (2 * den) >= den
        up == 2 * rem > den \/ (2 * rem = den /\ odd)
    IN  IF rem = 0 THEN 0 ELSE IF up THEN den - rem ELSE -rem

\* Math.ceil(feeRate * bytes) with feeRate the double num / den: where the
\* exact product is a whole number n, the double product can land on the
\* neighbour of n, and Math.ceil then gives n + 1 when that neighbour is above n
feeFor(rate, bytes) ==
    LET prod == rate.num * bytes
        n == prod \div rate.den
    IN  IF prod % rate.den # 0 THEN CeilDiv(prod, rate.den)
        ELSE IF n = 0 THEN 0
        ELSE LET err == DivisionError(rate.num, rate.den)
                 kn == FloorLog2(Abs(n), 1)
                 scale == rate.den * Pow2(kn - FloorLog2(Abs(rate.num), rate.den))
                 magUp == 2 * err * bytes > scale
                 magDown == /\ err < 0
                            /\ (IF Abs(n) = Pow2(kn) THEN 4 ELSE 2) * (-err) * bytes > scale
             IN  IF rate.num > 0 THEN n + (IF magUp THEN 1 ELSE 0)
                 ELSE n + (IF magDown THEN 1 ELSE 0)

\* funding(inputs, outputs, feeRate).funding: what the inputs lack to pay the
\* outputs and the fee at feeRate (negative when they hold more).
funding(ins, outs, rate) ==
    SumValues(outs) + feeFor(rate, transactionBytes(ins, outs)) - SumValues(ins)

dustThreshold(feeRate) == 148 * feeRate

\* utils.finalize: add a change output when the remainder is worth one.
finalize(ins, outs, feeRate, changeAddress) ==
    LET bytesAccum == transactionBytes(ins, outs)
        feeAfterExtraOutput == feeRate * (bytesAccum + outputBytes(Output(changeAddress, 0)))
        remainder == SumValues(ins) - (SumValues(outs) + feeAfterExtraOutput)
    IN  [inputs |-> ins,
         outputs |-> IF remainder > dustThreshold(feeRate)
                     THEN Append(outs, Output(changeAddress, remainder))
                     ELSE outs]

NoSelection == [inputs |-> <<>>, outputs |-> <<>>]

\* accumulative(utxos, outputs, feeRate): add inputs in the given order until
\* they cover the outputs and the fee; none when they never do.
RECURSIVE accumulative(_, _, _, _, _)
accumulative(utxos, picked, outs, feeRate, changeAddress) ==
    IF utxos = <<>> THEN NoSelection
    ELSE LET utxo == Head(utxos)
             utxoFee == feeRate * inputBytes(utxo)
         IN  IF utxoFee > utxo.value
             THEN accumulative(Tail(utxos), picked, outs, feeRate, changeAddress)
             ELSE LET inputs == Append(picked, utxo)
                      fee == feeRate * transactionBytes(inputs, outs)
                  IN  IF SumValues(inputs) < SumValues(outs) + fee
                      THEN accumulative(Tail(utxos), inputs, outs, feeRate, changeAddress)
                      ELSE finalize(inputs, outs, feeRate, changeAddress)

\* coinSelect(inputs, outputs, feeRate, changeAddress)
coinSelect(utxos, outs, feeRate, changeAddress) ==
    IF \E i \in 1..Len(outs) : outs[i].value < 0
    THEN NoSelection
    ELSE accumulative(utxos, <<>>, outs, feeRate, changeAddress)
(***************************************************************************)
(* Commitment addresses.                                                   *)
(***************************************************************************)
\* `${txid}:${index}` of an input
Outpoint(input) == <<input.hash.tag, ToString(input.index)>>

\* getEscrowTaprootAddress: mediaContent is JSON.stringify({inscriptionOutpoint})
getEscrowTaprootAddress(inscriptionOutpoint, escrowKey, network, chain) ==
    LET payment == P2TRPayment(toXOnly(escrowKey),
                               <<"inscriptionOutpoint">> \o inscriptionOutpoint)
    IN  [address |-> AddressOn(AddressNetwork(network, chain), payment.address),
         merkleHash |-> payment.hash]

\* getBuyerCommitAddress: mediaContent is
\* JSON.stringify({buyerPublicKey, buyerAddress, uniqueId}); the payment object
\* is what the method stores in this.buyerCommitPaymentAddress.
BuyerCommitPayment(buyerKey, address, uid) ==
    P2TRPayment(toXOnly(buyerKey),
                <<"buyerPublicKey", buyerKey[1], buyerKey[2],
                  "buyerAddress", address.type, address.key, "uniqueId", uid>>)

(***************************************************************************)
(* The inputs of a run: seller PSBTs, datasource answers, configuration.   *)
(***************************************************************************)
InscriptionTxids == <<"insA", "insB", "insC", "insD">>

\* What createInscriptionPSBT builds for inscription i at `price` ("ok"), and
\* other PSBTs a seller can hand in.
SellerPsbt(kind, i, price) ==
    LET ins0 == Input(ExternalTxid(InscriptionTxids[i]), 0, kind # "noWitness",
                      IF kind = "noAddress" THEN NoAddress ELSE sellerAddress,
                      600, SIGHASH_ALL_ANYONECANPAY, NoKey, NoRoot, FALSE)
        ins1 == Input(ExternalTxid("sellerCoin"), 1, TRUE, sellerAddress, 1000,
                      SIGHASH_ALL_ANYONECANPAY, NoKey, NoRoot, FALSE)
        escrow == CASE kind = "otherEscrow" -> Addr("p2wpkh", "elsewhere", NoRoot)
                    [] kind = "p2shEscrow" -> Addr("p2sh", "elsewhere", NoRoot)
                    [] OTHER -> toOutputScript(getEscrowTaprootAddress(Outpoint(ins0), escrowPublicKey,
                                                                  thisNetwork, thisChain).address)
    IN  [ins |-> IF kind = "twoInputs" THEN <<ins0, ins1>> ELSE <<ins0>>,
         outs |-> <<Output(escrow, 600), Output(sellerPayAddress, price)>>]

Batch(choices) == [i \in 1..Len(choices) |-> SellerPsbt(choices[i][1], i, choices[i][2])]

\* the lists of seller PSBTs an instance is constructed with
SellerBatches ==
    {Batch(<<>>),
     Batch(<< <<"ok", 1000>> >>),
     Batch(<< <<"ok", 2500>> >>),
     Batch(<< <<"noWitness", 1000>> >>),
     Batch(<< <<"noAddress", 1000>> >>),
     Batch(<< <<"twoInputs", 1000>> >>),
     Batch(<< <<"otherEscrow", 1000>> >>),
     Batch(<< <<"p2shEscrow", 1000>> >>),
     Batch(<< <<"ok", 1000>>, <<"ok", 2500>> >>),
     Batch(<< <<"ok", 1000>>, <<"noWitness", 1000>> >>),
     Batch(<< <<"noAddress", 1000>>, <<"noWitness", 1000>> >>),
     Batch(<< <<"ok", 2500>>, <<"twoInputs", 1000>> >>),
     Batch(<< <<"otherEscrow", 1000>>, <<"ok", 1000>> >>),
     Batch(<< <<"ok", 1000>>, <<"p2shEscrow", 1000>> >>),
     Batch(<< <<"ok", 1000>>, <<"ok", 2500>>, <<"ok", 1000>> >>)}

AddressTypes == {"p2pkh", "p2sh", "p2wsh", "p2wpkh", "p2tr"}

FeeRates == {1, 2, 8}

ExtraOutputChoices ==
    {<<>>,
     <<Output(Addr("p2wpkh", "market", NoRoot), 700)>>,
     <<Output(Addr("p2tr", "market", NoRoot), 1000),
       Output(Addr("p2wpkh", "royalty", NoRoot), 700)>>}

\* datasource.getInscriptions({outpoint}): no record, the seller's record,
\* somebody else's record.
InscriptionRecord(outpoint, owner) == [outpoint |-> outpoint, owner |-> owner]

IndexAnswer(kind, outpoint) ==
    CASE kind = "missing" -> <<>>
      [] kind = "foreign" -> <<InscriptionRecord(outpoint, Addr("p2wpkh", "someoneElse", NoRoot))>>
      [] OTHER -> <<InscriptionRecord(outpoint, sellerAddress)>>

\* datasource.getUnspents(...).spendableUTXOs, sorted "desc"
Utxo(name, n, sats) == [txid |-> ExternalTxid(name), n |-> n, sats |-> sats]

\* the index, as the answers it gives for the outpoint of each seller PSBT:
\* every inscription found, one missing or owned by somebody else, or the
\* first two wrong in different ways
IndexPatterns(n) ==
    {[i \in 1..n |-> "found"]}
    \cup {[i \in 1..n |-> IF i = p THEN k ELSE "found"] :
                p \in 1..n, k \in {"missing", "foreign"}}
    \cup (IF n < 2 THEN {}
          ELSE {[i \in 1..n |-> IF i = 1 THEN k[1] ELSE IF i = 2 THEN k[2] ELSE "found"] :
                    k \in {<<"missing", "foreign">>, <<"foreign", "missing">>}})

IndexContents(psbts) ==
    {[i \in 1..Len(psbts) |-> IndexAnswer(pattern[i], Outpoint(psbts[i].ins[1]))] :
        pattern \in IndexPatterns(Len(psbts))}

UnspentsAnswers ==
    {[present |-> FALSE, spendableUTXOs |-> <<>>],
     [present |-> TRUE, spendableUTXOs |-> <<>>],
     [present |-> TRUE, spendableUTXOs |-> <<Utxo("coinA", 0, 100000)>>],
     [present |-> TRUE, spendableUTXOs |-> <<Utxo("coinA", 0, 700)>>],
     [present |-> TRUE, spendableUTXOs |->
        <<Utxo("coinA", 0, 5000), Utxo("coinB", 1, 3000), Utxo("coinC", 0, 2000),
          Utxo("coinD", 2, 1500), Utxo("coinE", 0, 1000)>>]}

UniqueIdOf(c) == IF c = 1 THEN "uid1" ELSE "uid2"
(***************************************************************************)
(* Helpers of the class.                                                   *)
(***************************************************************************)
\* getTotalFees(psbt): inputs - outputs
getTotalFees(psbt) == SumValues(psbt.ins) - SumValues(psbt.outs)

\* getVBytes(psbt)
getVBytes(psbt) == transactionBytes(psbt.ins, psbt.outs)

\* calculateFundingAmount({psbtB64, feeRate}).funding
calculateFundingAmount(psbt, feeRate) == funding(psbt.ins, psbt.outs, feeRate)

RECURSIVE SumFees(_)
SumFees(psbts) ==
    IF psbts = <<>> THEN 0 ELSE getTotalFees(Head(psbts)) + SumFees(Tail(psbts))

RECURSIVE SumVBytes(_)
SumVBytes(psbts) ==
    IF psbts = <<>> THEN 0 ELSE getVBytes(Head(psbts)) + SumVBytes(Tail(psbts))

\* processInput({utxo, pubKey}): the PSBT input spending a buyer UTXO
processInput(utxo, ownerAddress, pubKey) ==
    Input(utxo.txid, utxo.n, TRUE, ownerAddress, utxo.sats, 0,
          IF ownerAddress.type = "p2tr" THEN toXOnly(pubKey) ELSE NoKey,
          NoRoot, ownerAddress.type = "p2sh")

\* generateInputFromPSBTOutput: outputIndex is 0-based; supported is FALSE
\* where the method throws "scripts other than p2tr and p2wpkh are not supported!"
GenerateSupported(psbt, outputIndex) ==
    psbt.outs[outputIndex + 1].address.type \in {"p2tr", "p2wpkh"}

generateInputFromPSBTOutput(psbt, outputIndex, publicKey, sighashType) ==
    LET psbtOutput == psbt.outs[outputIndex + 1]
    IN  Input(TxId(psbt, FALSE), outputIndex, TRUE, psbtOutput.address,
              psbtOutput.value, sighashType,
              IF psbtOutput.address.type = "p2tr" THEN toXOnly(publicKey) ELSE NoKey,
              NoRoot, FALSE)

\* variant: the witness data of the first input is not looked at
SyncValidationError_NoWitnessCheck(psbt) ==
    IF psbt.ins[1].script.type = "nonstandard" THEN "invalid seller address in psbt"
    ELSE ""

\* the first error thrown by the synchronous part of the validation of one PSBT
SyncValidationError(psbt) ==
    IF ~psbt.ins[1].hasWitness THEN "invalid seller psbt"
    ELSE IF psbt.ins[1].script.type = "nonstandard" THEN "invalid seller address in psbt"
    ELSE ""

\* variant: the empty answer is not told apart from a foreign record
IndexValidationError_NoEmptyCheck(psbt, inscriptionsRes) ==
    LET outpoint == Outpoint(psbt.ins[1])
        sellerAddr == psbt.ins[1].script
    IN  IF ~\E k \in 1..Len(inscriptionsRes) :
                /\ inscriptionsRes[k].outpoint = outpoint
                /\ inscriptionsRes[k].owner = sellerAddr
        THEN "Inscription does not match"
        ELSE ""

\* the check of one PSBT against the answer of the inscription index
IndexValidationError(psbt, inscriptionsRes) ==
    LET outpoint == Outpoint(psbt.ins[1])
        sellerAddr == psbt.ins[1].script
    IN  IF Len(inscriptionsRes) = 0 THEN "Inscription not found"
        ELSE IF ~\E k \in 1..Len(inscriptionsRes) :
                    /\ inscriptionsRes[k].outpoint = outpoint
                    /\ inscriptionsRes[k].owner = sellerAddr
             THEN "Inscription does not match"
             ELSE ""

\* variant: the address check lets every address type through
AcceptedBuyerAddressTypes_WithLegacy == {"p2pkh", "p2sh", "p2wsh", "p2wpkh", "p2tr"}

\* buildTransactions: the buyer address types that pass the check
AcceptedBuyerAddressTypes == {"p2sh", "p2wsh", "p2wpkh", "p2tr"}

\* the outputs of the first transaction: one per seller PSBT, funded for the
\* second transaction at BASE_FEERATE, then the CPFP funding output
FirstTransactionOutputs(psbts, payment, cpfp) ==
    [i \in 1..(Len(psbts) + 1) |->
        IF i <= Len(psbts)
        THEN LET dummy == Input(ExternalTxid("zero"), 0, TRUE, payment.output,
                                dummyAmount, 0, toXOnly(buyerPublicKey), payment.hash, FALSE)
                 withDummy == [ins |-> Append(psbts[i].ins, dummy), outs |-> psbts[i].outs]
             IN  Output(payment.address,
                        calculateFundingAmount(withDummy, Rate(BASE_FEERATE, 1)) + dummyAmount)
        ELSE Output(payment.address, cpfp)]

\* variant: the buyer input is put in front of the seller's inputs
createSecondTransaction_BuyerFirst(first, outputIndex, inscriptionPsbt, txid, payment) ==
    LET generated == generateInputFromPSBTOutput(first, outputIndex, buyerPublicKey, SIGHASH_ALL)
        input == [generated EXCEPT !.hash = txid, !.tapMerkleRoot = payment.hash]
    IN  [ins |-> <<input>> \o inscriptionPsbt.ins, outs |-> inscriptionPsbt.outs]

\* createSecondTransaction: the seller PSBT with the buyer input appended
createSecondTransaction(first, outputIndex, inscriptionPsbt, txid, payment) ==
    LET generated == generateInputFromPSBTOutput(first, outputIndex, buyerPublicKey, SIGHASH_ALL)
        input == [generated EXCEPT !.hash = txid, !.tapMerkleRoot = payment.hash]
    IN  [ins |-> Append(inscriptionPsbt.ins, input), outs |-> inscriptionPsbt.outs]

\* variant: the funding input is added before the escrow inputs
createWithdrawTransaction_FundingFirst(first, firstTransactionOutputIndex, seconds, txid, payment, extras) ==
    LET inputs == [i \in 1..Len(seconds) |->
                    LET merkleHash == getEscrowTaprootAddress(Outpoint(seconds[i].ins[1]),
                                                              escrowPublicKey, thisNetwork,
                                                              thisChain).merkleHash
                    IN  [generateInputFromPSBTOutput(seconds[i], 0, escrowPublicKey, SIGHASH_ALL)
                            EXCEPT !.tapMerkleRoot = merkleHash]]
        fundingInput == [generateInputFromPSBTOutput(first, firstTransactionOutputIndex,
                                                     buyerPublicKey, SIGHASH_ALL)
                            EXCEPT !.hash = txid, !.tapMerkleRoot = payment.hash]
    IN  [ins |-> <<fundingInput>> \o inputs,
         outs |-> [i \in 1..Len(seconds) |-> Output(receiveAddress, inputs[i].value)]
                  \o extras]

\* createWithdrawTransaction
createWithdrawTransaction(first, firstTransactionOutputIndex, seconds, txid, payment, extras) ==
    LET inputs == [i \in 1..Len(seconds) |->
                    LET merkleHash == getEscrowTaprootAddress(Outpoint(seconds[i].ins[1]),
                                                              escrowPublicKey, thisNetwork,
                                                              thisChain).merkleHash
                    IN  [generateInputFromPSBTOutput(seconds[i], 0, escrowPublicKey, SIGHASH_ALL)
                            EXCEPT !.tapMerkleRoot = merkleHash]]
        fundingInput == [generateInputFromPSBTOutput(first, firstTransactionOutputIndex,
                                                     buyerPublicKey, SIGHASH_ALL)
                            EXCEPT !.hash = txid, !.tapMerkleRoot = payment.hash]
    IN  [ins |-> Append(inputs, fundingInput),
         outs |-> [i \in 1..Len(seconds) |-> Output(receiveAddress, inputs[i].value)]
                  \o extras]

\* datasource.getInscriptionUTXO({id}): the UTXO holding the inscription
InscriptionUtxo(name, n, sats, address) ==
    [present |-> TRUE, txid |-> ExternalTxid(name), n |-> n, sats |-> sats,
     address |-> address]

NoInscriptionUtxo ==
    [present |-> FALSE, txid |-> NoTxid, n |-> 0, sats |-> 0, address |-> NoAddress]

\* variant: the payment output is added before the escrow output
createInscriptionPSBT_PaymentFirst(inscriptionUtxo, sellerPublicKey, sellerAddr, receivePaymentAddress, inscriptionPrice, escrowKey, network, chain) ==
    IF ~inscriptionUtxo.present
    THEN [error |-> "Inscription not found", psbt |-> NoTx]
    ELSE IF inscriptionUtxo.address # sellerAddr
    THEN [error |-> "Inscription does not belong to seller", psbt |-> NoTx]
    ELSE LET inscriptionOutpoint == <<inscriptionUtxo.txid.tag, ToString(inscriptionUtxo.n)>>
             input == [processInput(inscriptionUtxo, inscriptionUtxo.address, sellerPublicKey)
                        EXCEPT !.sighashType = SIGHASH_ALL_ANYONECANPAY]
         IN  [error |-> "",
              psbt |-> [ins |-> <<input>>,
                        outs |-> <<Output(receivePaymentAddress, inscriptionPrice),
                                   Output(toOutputScript(getEscrowTaprootAddress(
                                              inscriptionOutpoint, escrowKey, network,
                                              chain).address),
                                          inscriptionUtxo.sats)>>]]

\* createInscriptionPSBT: error is "" when it resolves to psbt
createInscriptionPSBT(inscriptionUtxo, sellerPublicKey, sellerAddr, receivePaymentAddress, inscriptionPrice, escrowKey, network, chain) ==
    IF ~inscriptionUtxo.present
    THEN [error |-> "Inscription not found", psbt |-> NoTx]
    ELSE IF inscriptionUtxo.address # sellerAddr
    THEN [error |-> "Inscription does not belong to seller", psbt |-> NoTx]
    ELSE LET inscriptionOutpoint == <<inscriptionUtxo.txid.tag, ToString(inscriptionUtxo.n)>>
             input == [processInput(inscriptionUtxo, inscriptionUtxo.address, sellerPublicKey)
                        EXCEPT !.sighashType = SIGHASH_ALL_ANYONECANPAY]
         IN  [error |-> "",
              psbt |-> [ins |-> <<input>>,
                        outs |-> <<Output(toOutputScript(getEscrowTaprootAddress(
                                              inscriptionOutpoint, escrowKey, network,
                                              chain).address),
                                          inscriptionUtxo.sats),
                                   Output(receivePaymentAddress, inscriptionPrice)>>]]
(***************************************************************************)
(* State machine.                                                          *)
(***************************************************************************)
InitWith(callSet) ==
    /\ inscriptionsPsbts \in SellerBatches
    /\ buyerAddressType \in AddressTypes
    /\ effectiveFeeRate \in FeeRates
    /\ extraOutputs \in ExtraOutputChoices
    /\ inscriptionIndex \in IndexContents(inscriptionsPsbts)
    /\ buyerUtxos = <<>>
    /\ buyerCommitPaymentAddress = NoPayment
    /\ firstTxId = NoTxid
    /\ calls = callSet
    /\ pc = [c \in CallIds |-> IF c \in callSet THEN "start" ELSE "idle"]
    /\ uniqueId = [c \in CallIds |-> UniqueIdOf(c)]
    /\ pendingIdx = [c \in CallIds |-> {}]
    /\ CPFPFunding = [c \in CallIds |-> 0]
    /\ extraCPFPFunding = [c \in CallIds |-> 0]
    /\ iteration = [c \in CallIds |-> 0]
    /\ coinInputs = [c \in CallIds |-> <<>>]
    /\ firstOutputs = [c \in CallIds |-> <<>>]
    /\ firstTx = [c \in CallIds |-> NoTx]
    /\ secondTxs = [c \in CallIds |-> <<>>]
    /\ thirdTx = [c \in CallIds |-> NoTx]
    /\ response = [c \in CallIds |-> None]
    /\ error = [c \in CallIds |-> ""]
    /\ unspentsAsked = [c \in CallIds |-> 0]
    /\ utxosBefore = [c \in CallIds |-> <<>>]
    /\ fetchedUtxos = [c \in CallIds |-> <<>>]
    /\ sellerCall = None
    /\ sellerResult = None
    /\ sellerPc = "idle"
    /\ escrowResults = {}

Init == InitWith({1})

shared == <<buyerUtxos, buyerCommitPaymentAddress, firstTxId>>
loopVars == <<CPFPFunding, extraCPFPFunding, iteration>>
built == <<coinInputs, firstOutputs, firstTx, secondTxs, thirdTx>>
asked == <<unspentsAsked, utxosBefore, fetchedUtxos>>

\* buildTransactions rejects with `message`
Throw(c, message) ==
    /\ pc' = [pc EXCEPT ![c] = "error"]
    /\ error' = [error EXCEPT ![c] = message]

\* variant: only the first seller PSBT is checked
FirstSyncError_FirstOnly(psbts) ==
    IF psbts = <<>> THEN "" ELSE SyncValidationError(Head(psbts))

\* the first synchronous validation error of the batch, "" when there is none
RECURSIVE FirstSyncError(_)
FirstSyncError(psbts) ==
    IF psbts = <<>> THEN ""
    ELSE IF SyncValidationError(Head(psbts)) # "" THEN SyncValidationError(Head(psbts))
    ELSE FirstSyncError(Tail(psbts))

\* the PSBTs whose map callback reaches its await: every callback runs to its
\* first throw or to the getInscriptions request, whatever the others did
LookupsRequested(psbts) == {i \in 1..Len(psbts) : SyncValidationError(psbts[i]) = ""}

\* buildTransactions up to the await of validateInscriptionPsbts: the input
\* checks and the synchronous part of every PSBT's validation.  A PSBT that
\* fails there rejects the call; the lookups of the others are under way.
Start(c) ==
    /\ pc[c] = "start"
    /\ IF Len(inscriptionsPsbts) = 0
       THEN Throw(c, "inscriptionsPsbts are required") /\ UNCHANGED pendingIdx
       ELSE IF buyerAddressType \notin AcceptedBuyerAddressTypes
       THEN Throw(c, "Buyer address must be a segwit/taproot/p2sh address")
            /\ UNCHANGED pendingIdx
       ELSE /\ pendingIdx' = [pendingIdx EXCEPT ![c] = LookupsRequested(inscriptionsPsbts)]
            /\ IF FirstSyncError(inscriptionsPsbts) # ""
               THEN Throw(c, FirstSyncError(inscriptionsPsbts))
               ELSE pc' = [pc EXCEPT ![c] = "validating"] /\ UNCHANGED error
    /\ UNCHANGED <<config, shared, calls, uniqueId, loopVars, built, response, asked>>

\* datasource.getInscriptions({outpoint}) answers for seller PSBT i and the
\* callback runs its checks.  The first failing check rejects Promise.all and
\* with it the call; the last passing answer resolves it, and buildTransactions
\* goes on in a later turn.  After a rejection the outcome of a callback is
\* dropped.
IndexResponse(c, i) ==
    /\ pc[c] \in {"validating", "error"}
    /\ i \in pendingIdx[c]
    /\ pendingIdx' = [pendingIdx EXCEPT ![c] = @ \ {i}]
    /\ IF pc[c] = "error"
       THEN UNCHANGED <<pc, error>>
       ELSE IF IndexValidationError(inscriptionsPsbts[i], inscriptionIndex[i]) # ""
       THEN Throw(c, IndexValidationError(inscriptionsPsbts[i], inscriptionIndex[i]))
       ELSE /\ UNCHANGED error
            /\ IF pendingIdx[c] = {i}
               THEN pc' = [pc EXCEPT ![c] = "validated"]
               ELSE UNCHANGED pc
    /\ UNCHANGED <<config, shared, calls, uniqueId, loopVars, built, response, asked>>

\* buildTransactions after the await of validateInscriptionPsbts: it sets its
\* locals and calls getBuyerUtxos, which sends the getUnspents request
AfterValidation(c) ==
    /\ pc[c] = "validated"
    /\ pc' = [pc EXCEPT ![c] = "getBuyerUtxos"]
    /\ CPFPFunding' = [CPFPFunding EXCEPT ![c] = InitialCPFPFunding]
    /\ extraCPFPFunding' = [extraCPFPFunding EXCEPT ![c] = InitialCPFPFunding]
    /\ unspentsAsked' = [unspentsAsked EXCEPT ![c] = @ + 1]
    /\ utxosBefore' = [utxosBefore EXCEPT ![c] = buyerUtxos]
    /\ UNCHANGED <<config, shared, calls, uniqueId, pendingIdx, iteration, fetchedUtxos,
                   built, response, error>>

\* getBuyerUtxos: !spendableUTXOs || spendableUTXOs.length === 0
NoSpendableUtxos(unspents) == ~unspents.present \/ Len(unspents.spendableUTXOs) = 0

\* variant: this.buyerUtxos is assigned before the emptiness check
GetBuyerUtxos_AssignFirst(c, unspents) ==
    /\ pc[c] = "getBuyerUtxos"
    /\ buyerUtxos' = unspents.spendableUTXOs
    /\ IF NoSpendableUtxos(unspents)
       THEN Throw(c, "No spendable utxos found") /\ UNCHANGED fetchedUtxos
       ELSE /\ fetchedUtxos' = [fetchedUtxos EXCEPT ![c] = unspents.spendableUTXOs]
            /\ pc' = [pc EXCEPT ![c] = "loopBody"]
            /\ UNCHANGED error
    /\ UNCHANGED <<config, buyerCommitPaymentAddress, firstTxId, calls, uniqueId,
                   pendingIdx, loopVars, built, response, unspentsAsked, utxosBefore>>

\* getBuyerUtxos after the await of datasource.getUnspents
GetBuyerUtxos(c, unspents) ==
    /\ pc[c] = "getBuyerUtxos"
    /\ IF NoSpendableUtxos(unspents)
       THEN Throw(c, "No spendable utxos found") /\ UNCHANGED <<buyerUtxos, fetchedUtxos>>
       ELSE /\ buyerUtxos' = unspents.spendableUTXOs
            /\ fetchedUtxos' = [fetchedUtxos EXCEPT ![c] = unspents.spendableUTXOs]
            /\ pc' = [pc EXCEPT ![c] = "loopBody"]
            /\ UNCHANGED error
    /\ UNCHANGED <<config, buyerCommitPaymentAddress, firstTxId, calls, uniqueId,
                   pendingIdx, loopVars, built, response, unspentsAsked, utxosBefore>>

\* The loop body up to the await inside createFirstTransaction:
\* getBuyerCommitAddress, the outputs of the first transaction, and the inputs
\* made from this.buyerUtxos.
BuildFirstStart(c) ==
    /\ pc[c] = "loopBody"
    /\ LET payment == BuyerCommitPayment(buyerPublicKey, buyerAddress, uniqueId[c])
       IN  /\ buyerCommitPaymentAddress' = payment
           /\ firstOutputs' = [firstOutputs EXCEPT ![c] =
                    FirstTransactionOutputs(inscriptionsPsbts, payment, CPFPFunding[c])]
    /\ secondTxs' = [secondTxs EXCEPT ![c] = <<>>]
    /\ coinInputs' = [coinInputs EXCEPT ![c] =
            [k \in 1..Len(buyerUtxos) |-> processInput(buyerUtxos[k], buyerAddress, buyerPublicKey)]]
    /\ pc' = [pc EXCEPT ![c] = "coinSelect"]
    /\ UNCHANGED <<config, buyerUtxos, firstTxId, calls, uniqueId, pendingIdx,
                   loopVars, firstTx, thirdTx, response, error, asked>>

\* inputs.find((i) => i.txid === input.txid && i.vout === input.vout)
FindInput(inputs, input) ==
    LET k == CHOOSE k \in 1..Len(inputs) :
                /\ inputs[k].hash = input.hash /\ inputs[k].index = input.index
                /\ \A j \in 1..(k - 1) :
                        ~(inputs[j].hash = input.hash /\ inputs[j].index = input.index)
    IN  inputs[k]

\* the error createFirstTransaction throws on the coin selection, "" when none
FirstTransactionError(res) ==
    IF Len(res.inputs) = 0 THEN "No input utxo found. Not enough funds."
    ELSE IF Len(res.outputs) = 0 THEN "No output found."
    ELSE IF \E k \in 1..Len(res.outputs) : res.outputs[k].value = 0
    THEN "Output value is required"
    ELSE ""

\* variant: the outputs of the coin selection are added last to first
FirstTransactionPsbt_OutputsReversed(inputs, res) ==
    [ins |-> [k \in 1..Len(res.inputs) |-> FindInput(inputs, res.inputs[k])],
     outs |-> [k \in 1..Len(res.outputs) |-> res.outputs[Len(res.outputs) + 1 - k]]]

\* the PSBT createFirstTransaction builds from the coin selection
FirstTransactionPsbt(inputs, res) ==
    [ins |-> [k \in 1..Len(res.inputs) |-> FindInput(inputs, res.inputs[k])],
     outs |-> res.outputs]

\* variant: this.firstTxId is set only while it is undefined
BuildFirstFinish_KeepTxId(c) ==
    /\ pc[c] = "coinSelect"
    /\ LET res == coinSelect(coinInputs[c], firstOutputs[c], BASE_FEERATE, buyerAddress)
       IN  IF FirstTransactionError(res) # ""
           THEN Throw(c, FirstTransactionError(res)) /\ UNCHANGED <<firstTxId, firstTx>>
           ELSE /\ firstTx' = [firstTx EXCEPT ![c] = FirstTransactionPsbt(coinInputs[c], res)]
                /\ firstTxId' = IF firstTxId = NoTxid
                                THEN TxId(FirstTransactionPsbt(coinInputs[c], res), TRUE)
                                ELSE firstTxId
                /\ pc' = [pc EXCEPT ![c] = "secondTxs"]
                /\ UNCHANGED error
    /\ UNCHANGED <<config, buyerUtxos, buyerCommitPaymentAddress, calls, uniqueId,
                   pendingIdx, loopVars, coinInputs, firstOutputs, secondTxs, thirdTx,
                   response, asked>>

\* createFirstTransaction after its await: coin selection, the PSBT, and the
\* transaction id stored in this.firstTxId.
BuildFirstFinish(c) ==
    /\ pc[c] = "coinSelect"
    /\ LET res == coinSelect(coinInputs[c], firstOutputs[c], BASE_FEERATE, buyerAddress)
       IN  IF FirstTransactionError(res) # ""
           THEN Throw(c, FirstTransactionError(res)) /\ UNCHANGED <<firstTxId, firstTx>>
           ELSE /\ firstTx' = [firstTx EXCEPT ![c] = FirstTransactionPsbt(coinInputs[c], res)]
                /\ firstTxId' = TxId(FirstTransactionPsbt(coinInputs[c], res), TRUE)
                /\ pc' = [pc EXCEPT ![c] = "secondTxs"]
                /\ UNCHANGED error
    /\ UNCHANGED <<config, buyerUtxos, buyerCommitPaymentAddress, calls, uniqueId,
                   pendingIdx, loopVars, coinInputs, firstOutputs, secondTxs, thirdTx,
                   response, asked>>

\* every createSecondTransaction of the iteration (none of them awaits)
BuildSecond(c) ==
    /\ pc[c] = "secondTxs"
    /\ IF \E i \in 1..Len(inscriptionsPsbts) : ~GenerateSupported(firstTx[c], i - 1)
       THEN Throw(c, "scripts other than p2tr and p2wpkh are not supported!")
            /\ UNCHANGED secondTxs
       ELSE /\ secondTxs' = [secondTxs EXCEPT ![c] =
                    [i \in 1..Len(inscriptionsPsbts) |->
                        createSecondTransaction(firstTx[c], i - 1, inscriptionsPsbts[i],
                                                firstTxId, buyerCommitPaymentAddress)]]
            /\ pc' = [pc EXCEPT ![c] = "thirdTx"]
            /\ UNCHANGED error
    /\ UNCHANGED <<config, shared, calls, uniqueId, pendingIdx, loopVars, coinInputs,
                   firstOutputs, firstTx, thirdTx, response, asked>>

\* createWithdrawTransaction (it does not await)
BuildThird(c) ==
    /\ pc[c] = "thirdTx"
    /\ IF \/ \E i \in 1..Len(secondTxs[c]) : ~GenerateSupported(secondTxs[c][i], 0)
          \/ ~GenerateSupported(firstTx[c], Len(firstOutputs[c]) - 1)
       THEN Throw(c, "scripts other than p2tr and p2wpkh are not supported!")
            /\ UNCHANGED thirdTx
       ELSE /\ thirdTx' = [thirdTx EXCEPT ![c] =
                    createWithdrawTransaction(firstTx[c], Len(firstOutputs[c]) - 1,
                                              secondTxs[c], firstTxId,
                                              buyerCommitPaymentAddress, extraOutputs)]
            /\ pc' = [pc EXCEPT ![c] = "feeCalc"]
            /\ UNCHANGED error
    /\ UNCHANGED <<config, shared, calls, uniqueId, pendingIdx, loopVars, coinInputs,
                   firstOutputs, firstTx, secondTxs, response, asked>>

\* the extra funding the third transaction needs for the whole chain to pay
\* effectiveFeeRate
ExtraFunding(first, seconds, third, feeRate) ==
    LET totalVbytes == getVBytes(first) + getVBytes(third) + SumVBytes(seconds)
        desiredTotalFee == feeRate * totalVbytes
        feesPaidByFirstTx == getTotalFees(first)
        feesPaidBySecondTxs == SumFees(seconds)
        CPFPFeeRate == Rate(desiredTotalFee - (feesPaidByFirstTx + feesPaidBySecondTxs),
                            getVBytes(third))
    IN  calculateFundingAmount(third, CPFPFeeRate)

\* variant: the loop also goes round when nothing is missing
LoopContinues_OrEqual(extra) == extra >= 0

\* while (extraCPFPFunding > 0)
LoopContinues(extra) == extra > 0

BuildTransactionsResponse(first, seconds, third) ==
    [firstTransactionPSBTB64 |-> first, secondTransactionPSBTB64s |-> seconds,
     thirdTransactionPSBTB64 |-> third]

\* variant: the running total is replaced by the extra funding of the pass
FeeCalc_Assign(c) ==
    /\ pc[c] = "feeCalc"
    /\ LET extra == ExtraFunding(firstTx[c], secondTxs[c], thirdTx[c], effectiveFeeRate)
       IN  /\ extraCPFPFunding' = [extraCPFPFunding EXCEPT ![c] = extra]
           /\ CPFPFunding' = [CPFPFunding EXCEPT ![c] = extra]
           /\ iteration' = [iteration EXCEPT ![c] = @ + 1]
           /\ IF LoopContinues(extra)
              THEN pc' = [pc EXCEPT ![c] = "loopBody"] /\ UNCHANGED response
              ELSE /\ pc' = [pc EXCEPT ![c] = "done"]
                   /\ response' = [response EXCEPT ![c] =
                        BuildTransactionsResponse(firstTx[c], secondTxs[c], thirdTx[c])]
    /\ UNCHANGED <<config, shared, calls, uniqueId, pendingIdx, built, error, asked>>

\* the end of the loop body: the CPFP fee, the loop test and the return
FeeCalc(c) ==
    /\ pc[c] = "feeCalc"
    /\ LET extra == ExtraFunding(firstTx[c], secondTxs[c], thirdTx[c], effectiveFeeRate)
       IN  /\ extraCPFPFunding' = [extraCPFPFunding EXCEPT ![c] = extra]
           /\ CPFPFunding' = [CPFPFunding EXCEPT ![c] = @ + extra]
           /\ iteration' = [iteration EXCEPT ![c] = @ + 1]
           /\ IF LoopContinues(extra)
              THEN pc' = [pc EXCEPT ![c] = "loopBody"] /\ UNCHANGED response
              ELSE /\ pc' = [pc EXCEPT ![c] = "done"]
                   /\ response' = [response EXCEPT ![c] =
                        BuildTransactionsResponse(firstTx[c], secondTxs[c], thirdTx[c])]
    /\ UNCHANGED <<config, shared, calls, uniqueId, pendingIdx, built, error, asked>>

Terminal == {"done", "error"}

\* the caller calls buildTransactions again on the same instance once the
\* previous call has settled
CallAgain(c) ==
    /\ c \in CallIds \ calls
    /\ c - 1 \in calls
    /\ pc[c - 1] \in Terminal
    /\ calls' = calls \cup {c}
    /\ pc' = [pc EXCEPT ![c] = "start"]
    /\ UNCHANGED <<config, shared, uniqueId, pendingIdx, loopVars, built, response,
                   error, asked>>

Next ==
    \/ \E c \in CallIds : CallAgain(c)
    \/ \E c \in calls :
           \/ Start(c)
           \/ \E i \in 1..Len(inscriptionsPsbts) : IndexResponse(c, i)
           \/ AfterValidation(c)
           \/ \E unspents \in UnspentsAnswers : GetBuyerUtxos(c, unspents)
           \/ BuildFirstStart(c)
           \/ BuildFirstFinish(c)
           \/ BuildSecond(c)
           \/ BuildThird(c)
           \/ FeeCalc(c)

Spec == Init /\ [][Next]_vars
\* the event loop runs every continuation that is ready, and the datasource
\* answers every request
FairSpec == Spec /\ WF_vars(Next)

(***************************************************************************)
(* Overlapping calls: the caller calls buildTransactions again while an    *)
(* earlier call on the instance is suspended at one of its awaits.         *)
(***************************************************************************)
CallConcurrently(c) ==
    /\ c \in CallIds \ calls
    /\ c - 1 \in calls
    /\ pc[c - 1] \notin Terminal \cup {"start"}
    /\ calls' = calls \cup {c}
    /\ pc' = [pc EXCEPT ![c] = "start"]
    /\ UNCHANGED <<config, shared, uniqueId, pendingIdx, loopVars, built, response,
                   error, asked>>

ConcurrentNext ==
    \/ Next
    \/ \E c \in CallIds : CallConcurrently(c)

\* instances whose seller PSBTs all pass the validation
ConcurrentInit ==
    /\ InitWith({1})
    /\ inscriptionsPsbts \in {Batch(<< <<"ok", 1000>> >>),
                              Batch(<< <<"ok", 1000>>, <<"ok", 2500>> >>)}
    /\ buyerAddressType \in {"p2wpkh", "p2tr"}
    /\ effectiveFeeRate = BASE_FEERATE
    /\ extraOutputs = <<>>
    /\ \A i \in 1..Len(inscriptionsPsbts) :
            IndexValidationError(inscriptionsPsbts[i], inscriptionIndex[i]) = ""

ConcurrentSpec == ConcurrentInit /\ [][ConcurrentNext]_vars

(***************************************************************************)
(* Any party calls the static getEscrowTaprootAddress, at any moment of    *)
(* the life of an instance.  Each call is kept with its arguments, its     *)
(* result and the commitment payment the instance held when it was made.   *)
(***************************************************************************)
MaxEscrowCalls == 2

EscrowArg(tag, network, chain) ==
    [inscriptionOutpoint |-> <<tag, "0">>, escrowPublicKey |-> escrowPublicKey,
     network |-> network, chain |-> chain]

EscrowArgs ==
    {EscrowArg("insA", "regtest", "bitcoin"), EscrowArg("insB", "regtest", "bitcoin"),
     EscrowArg("insA", "mainnet", "bitcoin"), EscrowArg("insA", "regtest", "fractal-bitcoin"),
     EscrowArg("insB", "regtest", "fractal-bitcoin")}

EscrowCall(args) ==
    [args |-> args,
     result |-> getEscrowTaprootAddress(args.inscriptionOutpoint, args.escrowPublicKey,
                                        args.network, args.chain),
     session |-> buyerCommitPaymentAddress.hash]

\* variant: the payment is kept in this.buyerCommitPaymentAddress and used
\* again while it is there, as getBuyerCommitAddress keeps its payment
GetEscrowTaprootAddress_Memo(args) ==
    /\ Cardinality(escrowResults) < MaxEscrowCalls
    /\ IF buyerCommitPaymentAddress = NoPayment
       THEN /\ escrowResults' = escrowResults \cup {EscrowCall(args)}
            /\ buyerCommitPaymentAddress' =
                    P2TRPayment(toXOnly(args.escrowPublicKey),
                                <<"inscriptionOutpoint">> \o args.inscriptionOutpoint)
       ELSE /\ escrowResults' = escrowResults \cup
                    {[EscrowCall(args) EXCEPT
                        !.result.merkleHash = buyerCommitPaymentAddress.hash,
                        !.result.address = AddressOn(AddressNetwork(args.network, args.chain),
                                                     buyerCommitPaymentAddress.address)]}
            /\ UNCHANGED buyerCommitPaymentAddress
    /\ UNCHANGED <<inscriptionsPsbts, buyerAddressType, effectiveFeeRate, extraOutputs,
                   inscriptionIndex, sellerCall, sellerResult, sellerPc, buyerUtxos, firstTxId,
                   calls, pc, uniqueId, pendingIdx, loopVars, built, response, error, asked>>

\* getEscrowTaprootAddress called with args: it returns, and nothing else happens
GetEscrowTaprootAddress(args) ==
    /\ Cardinality(escrowResults) < MaxEscrowCalls
    /\ escrowResults' = escrowResults \cup {EscrowCall(args)}
    /\ UNCHANGED <<inscriptionsPsbts, buyerAddressType, effectiveFeeRate, extraOutputs,
                   inscriptionIndex, sellerCall, sellerResult, sellerPc, shared,
                   calls, pc, uniqueId, pendingIdx, loopVars, built, response, error, asked>>

EscrowNext ==
    \/ Next
    \/ \E args \in EscrowArgs : GetEscrowTaprootAddress(args)

\* an instance with two seller PSBTs that pass the validation
EscrowInit ==
    /\ InitWith({1})
    /\ inscriptionsPsbts = Batch(<< <<"ok", 1000>>, <<"ok", 2500>> >>)
    /\ buyerAddressType = "p2tr"
    /\ effectiveFeeRate = BASE_FEERATE
    /\ extraOutputs = <<>>
    /\ \A i \in 1..Len(inscriptionsPsbts) :
            IndexValidationError(inscriptionsPsbts[i], inscriptionIndex[i]) = ""

EscrowSpec == EscrowInit /\ [][EscrowNext]_vars

(***************************************************************************)
(* The seller side: one call of the static createInscriptionPSBT, before   *)
(* any buyer instance exists.                                              *)
(***************************************************************************)
sellerPublicKey == <<"02", "sellerX">>
sellerTaprootAddress == Addr("p2tr", "sellerX", NoRoot)
otherEscrowPublicKey == <<"02", "escrowY">>

\* the answers of datasource.getInscriptionUTXO
InscriptionUtxoAnswers ==
    {NoInscriptionUtxo,
     InscriptionUtxo("insA", 0, 600, sellerAddress),
     InscriptionUtxo("insB", 1, 546, sellerAddress),
     InscriptionUtxo("insC", 0, 10000, sellerTaprootAddress),
     InscriptionUtxo("insA", 0, 600, Addr("p2wpkh", "someoneElse", NoRoot))}

SellerCalls ==
    [inscriptionUtxo : InscriptionUtxoAnswers,
     sellerPublicKey : {sellerPublicKey},
     sellerAddress : {sellerAddress, sellerTaprootAddress},
     receivePaymentAddress : {sellerPayAddress, sellerAddress},
     inscriptionPrice : {546, 1000, 2500},
     escrowPublicKey : {escrowPublicKey, otherEscrowPublicKey},
     network : {thisNetwork},
     chain : {thisChain}]

SellerInit ==
    /\ sellerCall \in SellerCalls
    /\ sellerResult = None
    /\ sellerPc = "getInscriptionUTXO"
    /\ escrowResults = {}
    /\ inscriptionsPsbts = <<>>
    /\ buyerAddressType = "p2tr"
    /\ effectiveFeeRate = BASE_FEERATE
    /\ extraOutputs = <<>>
    /\ inscriptionIndex = <<>>
    /\ buyerUtxos = <<>>
    /\ buyerCommitPaymentAddress = NoPayment
    /\ firstTxId = NoTxid
    /\ calls = {}
    /\ pc = [c \in CallIds |-> "idle"]
    /\ uniqueId = [c \in CallIds |-> UniqueIdOf(c)]
    /\ pendingIdx = [c \in CallIds |-> {}]
    /\ CPFPFunding = [c \in CallIds |-> 0]
    /\ extraCPFPFunding = [c \in CallIds |-> 0]
    /\ iteration = [c \in CallIds |-> 0]
    /\ coinInputs = [c \in CallIds |-> <<>>]
    /\ firstOutputs = [c \in CallIds |-> <<>>]
    /\ firstTx = [c \in CallIds |-> NoTx]
    /\ secondTxs = [c \in CallIds |-> <<>>]
    /\ thirdTx = [c \in CallIds |-> NoTx]
    /\ response = [c \in CallIds |-> None]
    /\ error = [c \in CallIds |-> ""]
    /\ unspentsAsked = [c \in CallIds |-> 0]
    /\ utxosBefore = [c \in CallIds |-> <<>>]
    /\ fetchedUtxos = [c \in CallIds |-> <<>>]

\* what the call settles with, from its arguments and the datasource's answer
SellerOutcome ==
    createInscriptionPSBT(sellerCall.inscriptionUtxo, sellerCall.sellerPublicKey,
                          sellerCall.sellerAddress, sellerCall.receivePaymentAddress,
                          sellerCall.inscriptionPrice, sellerCall.escrowPublicKey,
                          sellerCall.network, sellerCall.chain)

\* datasource.getInscriptionUTXO answers: the call is rejected when there is
\* no UTXO or it is not at sellerAddress, else it awaits processInput
InscriptionUtxoAnswer ==
    /\ sellerPc = "getInscriptionUTXO"
    /\ IF SellerOutcome.error # ""
       THEN sellerResult' = SellerOutcome /\ sellerPc' = "settled"
       ELSE sellerPc' = "processInput" /\ UNCHANGED sellerResult
    /\ UNCHANGED <<inscriptionsPsbts, buyerAddressType, effectiveFeeRate, extraOutputs,
                   inscriptionIndex, sellerCall, shared, calls, pc, uniqueId, pendingIdx,
                   loopVars, built, response, error, asked, escrowResults>>

\* processInput answers: the PSBT is built and the call resolves
SellerInputProcessed ==
    /\ sellerPc = "processInput"
    /\ sellerResult' = SellerOutcome
    /\ sellerPc' = "settled"
    /\ UNCHANGED <<inscriptionsPsbts, buyerAddressType, effectiveFeeRate, extraOutputs,
                   inscriptionIndex, sellerCall, shared, calls, pc, uniqueId, pendingIdx,
                   loopVars, built, response, error, asked, escrowResults>>

SellerNext == InscriptionUtxoAnswer \/ SellerInputProcessed

SellerSpec == SellerInit /\ [][SellerNext]_vars

(***************************************************************************)
(* Notions the properties below are stated with.                           *)
(***************************************************************************)
NumInscriptions == Len(inscriptionsPsbts)

\* positions of a call inside the do-while loop
LoopPcs == {"loopBody", "coinSelect", "secondTxs", "thirdTx", "feeCalc"}

\* the call has entered the fee loop
EnteredLoop(c) == firstOutputs[c] # <<>>

\* the three transactions held by the call were built in one iteration
ChainBuilt(c) == pc[c] \in {"feeCalc", "done"}


IterationBound == 3

(***************************************************************************)
(* C1.  As stated: once a call has passed the input checks and the         *)
(* validation and has spendable buyer UTXOs (it has entered the fee loop), *)
(* it leaves the loop Converged, never through an error.                   *)
(***************************************************************************)
C1_AlwaysConverges ==
    \A c \in calls : EnteredLoop(c) => pc[c] # "error"

(***************************************************************************)
(* C1, amended: a call that has entered the fee loop eventually leaves it, *)
(* either with an error thrown by a builder or Converged; it returns only  *)
(* with extraCPFPFunding <= 0, and it goes round again only with           *)
(* extraCPFPFunding > 0.  The passes are bounded by the buyer's funds, not *)
(* by an iteration count: each adds at least 1 to CPFPFunding, which stays *)
(* below the value of the buyer's UTXOs.                                   *)
(***************************************************************************)
C1_LoopExits ==
    \A c \in calls :
        /\ pc[c] = "done" => extraCPFPFunding[c] <= 0
        /\ (pc[c] \in LoopPcs /\ iteration[c] > 0) => extraCPFPFunding[c] > 0
        \* every pass adds at least one satoshi to CPFPFunding ...
        /\ pc[c] \in LoopPcs => CPFPFunding[c] >= InitialCPFPFunding + iteration[c]
        \* ... which a first transaction can only pay out of the buyer's coins
        /\ pc[c] \in {"secondTxs", "thirdTx", "feeCalc"}
                => CPFPFunding[c] < SumValues(coinInputs[c])

\* the same as a liveness property, under FairSpec
C1_LoopExitsEventually ==
    \A c \in CallIds : (pc[c] = "loopBody") ~> (pc[c] \in Terminal)

C1_Witness ==
    \E c \in calls : pc[c] = "done" /\ iteration[c] >= 3 /\ extraCPFPFunding[c] <= 0

(***************************************************************************)
(* C2.  As stated: the loop has a maximum iteration count; when the extra  *)
(* funding is still positive after IterationBound iterations the call      *)
(* fails with a convergence-timeout error instead of iterating again.      *)
(***************************************************************************)
C2_IterationBoundEnforced ==
    \A c \in calls :
        (iteration[c] >= IterationBound /\ extraCPFPFunding[c] > 0)
            => (pc[c] = "error" /\ error[c] = "FeeConvergenceTimeout")

(***************************************************************************)
(* C3.  As stated: every transaction buildTransactions returns has total   *)
(* input value >= total output value (getTotalFees >= 0).                  *)
(***************************************************************************)
C3_ReturnedFeesNonNegative ==
    \A c \in calls :
        response[c] # None =>
            /\ getTotalFees(response[c].firstTransactionPSBTB64) >= 0
            /\ \A i \in 1..Len(response[c].secondTransactionPSBTB64s) :
                    getTotalFees(response[c].secondTransactionPSBTB64s[i]) >= 0
            /\ getTotalFees(response[c].thirdTransactionPSBTB64) >= 0

(***************************************************************************)
(* C4.  As stated: when buildTransactions returns, the fees of the three   *)
(* stages divided by their vbytes are within a small tolerance (here       *)
(* 1 sat/vB) of effectiveFeeRate.                                          *)
(***************************************************************************)
TotalFeePaid(r) ==
    getTotalFees(r.firstTransactionPSBTB64) + SumFees(r.secondTransactionPSBTB64s)
        + getTotalFees(r.thirdTransactionPSBTB64)

TotalVBytes(r) ==
    getVBytes(r.firstTransactionPSBTB64) + SumVBytes(r.secondTransactionPSBTB64s)
        + getVBytes(r.thirdTransactionPSBTB64)

C4_AggregateFeeRateMet ==
    \A c \in calls :
        response[c] # None =>
            Abs(TotalFeePaid(response[c]) - effectiveFeeRate * TotalVBytes(response[c]))
                <= TotalVBytes(response[c])
(***************************************************************************)
(* C5.  buildTransactions has no partial success: a call whose validation  *)
(* or whose build fails ends in an error without a response, and a         *)
(* response holds the first, all N second and the third transaction of one *)
(* and the same iteration.                                                 *)
(***************************************************************************)
\* some seller PSBT fails validateInscriptionPsbts
SomeValidationFails ==
    \E i \in 1..NumInscriptions :
        \/ SyncValidationError(inscriptionsPsbts[i]) # ""
        \/ IndexValidationError(inscriptionsPsbts[i], inscriptionIndex[i]) # ""

\* the second and third transactions of r spend the outputs of r's first
SameIteration(r) ==
    LET first == r.firstTransactionPSBTB64
        seconds == r.secondTransactionPSBTB64s
        third == r.thirdTransactionPSBTB64
        n == Len(seconds)
    IN  /\ Len(first.outs) >= n + 1
        /\ Len(third.ins) = n + 1
        /\ \A i \in 1..n :
                LET buyerInput == seconds[i].ins[Len(seconds[i].ins)]
                IN  /\ buyerInput.hash = TxId(first, TRUE)
                    /\ buyerInput.index = i - 1
                    /\ buyerInput.value = first.outs[i].value
                    /\ third.ins[i].hash = TxId(seconds[i], FALSE)
        /\ third.ins[n + 1].hash = TxId(first, TRUE)
        /\ third.ins[n + 1].index = n
        /\ third.ins[n + 1].value = first.outs[n + 1].value

C5_NoPartialSuccess ==
    \A c \in calls :
        /\ (error[c] # "") <=> (pc[c] = "error")
        /\ pc[c] # "done" => response[c] = None
        /\ SomeValidationFails => (pc[c] \in {"start", "validating", "error"}
                                    /\ response[c] = None)
        /\ response[c] # None =>
                /\ Len(response[c].secondTransactionPSBTB64s) = NumInscriptions
                /\ response[c].firstTransactionPSBTB64 # NoTx
                /\ response[c].thirdTransactionPSBTB64 # NoTx
                /\ SameIteration(response[c])

\* a call fails in its third iteration, after two complete chains were built
C5_Witness ==
    \E c \in calls : pc[c] = "error" /\ iteration[c] >= 2 /\ response[c] = None

(***************************************************************************)
(* C6.  As stated: if the outpoint of some seller PSBT has no record in    *)
(* the inscription index, the call (made with an accepted buyer address)   *)
(* fails with the inscription-not-found error, before the buyer UTXOs are  *)
(* asked for and before any build.                                         *)
(***************************************************************************)
SomeInscriptionMissing ==
    \E i \in 1..NumInscriptions : Len(inscriptionIndex[i]) = 0

NothingFetchedOrBuilt(c) ==
    /\ unspentsAsked[c] = 0
    /\ ~EnteredLoop(c)
    /\ firstTx[c] = NoTx /\ secondTxs[c] = <<>> /\ thirdTx[c] = NoTx
    /\ response[c] = None

C6_FailsWithNotFound ==
    \A c \in calls :
        (SomeInscriptionMissing /\ buyerAddressType \in {"p2sh", "p2wsh", "p2wpkh", "p2tr"}) =>
            /\ NothingFetchedOrBuilt(c)
            /\ pc[c] \in {"start", "validating", "error"}
            /\ pc[c] = "error" => error[c] = "Inscription not found"

(***************************************************************************)
(* C6, amended: if the outpoint of some seller PSBT has no record in the   *)
(* inscription index, the call fails before the buyer UTXOs are asked for  *)
(* and before any build; the error is the inscription-not-found error      *)
(* unless another check fails first (the inscription list or buyer address *)
(* check, a PSBT without witness data or seller address, or the ownership  *)
(* check of another PSBT whose answer arrives earlier), and it is that     *)
(* error whenever the missing record is the only thing wrong.              *)
(***************************************************************************)
OnlyMissingRecordsWrong ==
    /\ buyerAddressType \in {"p2sh", "p2wsh", "p2wpkh", "p2tr"}
    /\ \A i \in 1..NumInscriptions :
            /\ SyncValidationError(inscriptionsPsbts[i]) = ""
            /\ \/ Len(inscriptionIndex[i]) = 0
               \/ \E k \in 1..Len(inscriptionIndex[i]) :
                    /\ inscriptionIndex[i][k].outpoint = Outpoint(inscriptionsPsbts[i].ins[1])
                    /\ inscriptionIndex[i][k].owner = inscriptionsPsbts[i].ins[1].script

C6_FailsBeforeFetch ==
    \A c \in calls :
        SomeInscriptionMissing =>
            /\ NothingFetchedOrBuilt(c)
            /\ pc[c] \in {"start", "validating", "error"}
            /\ pc[c] = "error" =>
                    error[c] \in {"Inscription not found", "Inscription does not match",
                                  "invalid seller psbt", "invalid seller address in psbt",
                                  "Buyer address must be a segwit/taproot/p2sh address"}
            /\ (pc[c] = "error" /\ OnlyMissingRecordsWrong)
                    => error[c] = "Inscription not found"

\* two PSBTs, the second one missing from the index, the first one answered
\* and accepted before the failure
C6_Witness ==
    \E c \in calls :
        /\ error[c] = "Inscription not found"
        /\ NumInscriptions = 2
        /\ pendingIdx[c] = {}
        /\ OnlyMissingRecordsWrong

(***************************************************************************)
(* C7.  As stated: only segwit and taproot buyer addresses pass the        *)
(* address check.                                                          *)
(***************************************************************************)
PassedInputChecks(c) ==
    /\ pc[c] \notin {"idle", "start"}
    /\ error[c] \notin {"inscriptionsPsbts are required",
                         "Buyer address must be a segwit/taproot/p2sh address"}

C7_OnlySegwitTaprootPass ==
    \A c \in calls : PassedInputChecks(c) => buyerAddressType \in {"p2wsh", "p2wpkh", "p2tr"}

(***************************************************************************)
(* C7, amended: a p2pkh (legacy) buyer address makes the call fail with an *)
(* input error before the datasource is asked for the buyer's UTXOs; the   *)
(* addresses that pass the check are the p2sh, p2wsh, p2wpkh and p2tr      *)
(* ones (p2sh included).                                                   *)
(***************************************************************************)
C7_AddressGate ==
    \A c \in calls :
        /\ buyerAddressType = "p2pkh" =>
                /\ pc[c] \in {"start", "error"}
                /\ unspentsAsked[c] = 0
                /\ pc[c] = "error" =>
                        error[c] \in {"inscriptionsPsbts are required",
                                      "Buyer address must be a segwit/taproot/p2sh address"}
        /\ PassedInputChecks(c) => buyerAddressType \in {"p2sh", "p2wsh", "p2wpkh", "p2tr"}

C7_Witness ==
    \E c \in calls :
        /\ buyerAddressType = "p2pkh"
        /\ NumInscriptions > 0
        /\ error[c] = "Buyer address must be a segwit/taproot/p2sh address"
        /\ unspentsAsked[c] = 0

(***************************************************************************)
(* C8.  When the datasource reports no spendable UTXO, getBuyerUtxos       *)
(* fails, buildTransactions fails with it, this.buyerUtxos keeps the value *)
(* it had, and the fee loop is not entered: a call inside the loop always  *)
(* holds at least one buyer UTXO.                                          *)
(***************************************************************************)
C8_NoUtxosNoLoop ==
    /\ [](\A c \in CallIds :
            /\ error[c] = "No spendable utxos found" =>
                    /\ pc[c] = "error"
                    /\ iteration[c] = 0
                    /\ ~EnteredLoop(c)
                    /\ firstTx[c] = NoTx /\ secondTxs[c] = <<>> /\ thirdTx[c] = NoTx
                    /\ response[c] = None
            /\ EnteredLoop(c) => coinInputs[c] # <<>>)
    /\ [][\A c \in CallIds :
            (pc[c] = "getBuyerUtxos" /\ pc'[c] = "error") =>
                /\ error'[c] = "No spendable utxos found"
                /\ buyerUtxos' = buyerUtxos
                /\ buyerUtxos' = utxosBefore[c]]_vars

\* a second call finds no UTXO after the first call stored some
C8_Witness ==
    \E c \in calls : error[c] = "No spendable utxos found" /\ utxosBefore[c] # <<>>

(***************************************************************************)
(* C9.  As stated: buildTransactions returns N second transactions, each   *)
(* with exactly two inputs: the seller's inscription input, then the buyer *)
(* input (sighash ALL) spending output i of the first transaction.         *)
(***************************************************************************)
C9_SecondTxTwoInputs ==
    \A c \in calls :
        response[c] # None =>
            LET seconds == response[c].secondTransactionPSBTB64s
                first == response[c].firstTransactionPSBTB64
            IN  /\ Len(seconds) = NumInscriptions
                /\ \A i \in 1..Len(seconds) :
                        /\ Len(seconds[i].ins) = 2
                        /\ seconds[i].ins[1] = inscriptionsPsbts[i].ins[1]
                        /\ seconds[i].ins[2].sighashType = SIGHASH_ALL
                        /\ seconds[i].ins[2].hash = TxId(first, TRUE)
                        /\ seconds[i].ins[2].index = i - 1

(***************************************************************************)
(* C10.  The third transaction has N+1 inputs and N+E outputs: input i     *)
(* spends output 0 of second transaction i with sighash ALL, the last      *)
(* input spends the CPFP funding output (index N) of the first             *)
(* transaction, output i pays receiveAddress the value of input i, and the *)
(* E extra outputs follow in the configured order.                         *)
(***************************************************************************)
C10_ThirdTxLayout ==
    \A c \in calls :
        ChainBuilt(c) =>
            LET third == thirdTx[c]
                n == Len(secondTxs[c])
                e == Len(extraOutputs)
            IN  /\ n = NumInscriptions
                /\ Len(third.ins) = n + 1
                /\ Len(third.outs) = n + e
                /\ \A i \in 1..n :
                        /\ third.ins[i].hash = TxId(secondTxs[c][i], FALSE)
                        /\ third.ins[i].index = 0
                        /\ third.ins[i].sighashType = SIGHASH_ALL
                        /\ third.ins[i].value = secondTxs[c][i].outs[1].value
                        /\ third.outs[i] = Output(receiveAddress, third.ins[i].value)
                /\ third.ins[n + 1].hash = TxId(firstTx[c], TRUE)
                /\ third.ins[n + 1].index = n
                /\ third.ins[n + 1].sighashType = SIGHASH_ALL
                /\ third.ins[n + 1].value = firstTx[c].outs[n + 1].value
                /\ firstTx[c].outs[n + 1] = firstOutputs[c][n + 1]
                /\ \A j \in 1..e : third.outs[n + j] = extraOutputs[j]

C10_Witness ==
    \E c \in calls :
        /\ pc[c] = "done"
        /\ NumInscriptions = 2
        /\ Len(extraOutputs) = 2
        /\ Len(response[c].thirdTransactionPSBTB64.ins) = 3
        /\ Len(response[c].thirdTransactionPSBTB64.outs) = 4

(***************************************************************************)
(* C11.  In every first transaction built for N seller PSBTs, output i     *)
(* (i < N) pays the buyer commitment address of the call the value that    *)
(* makes second transaction i pay BASE_FEERATE (its outputs, plus          *)
(* BASE_FEERATE times its size with the buyer input, minus its inputs),    *)
(* output N pays the commitment address the CPFPFunding of the pass, the   *)
(* targets are in the order they were handed to the coin selection, and    *)
(* the only other output is a change output after them that pays the       *)
(* buyer address.                                                          *)
(***************************************************************************)
\* the commitment address of call c
CommitAddressOf(c) == BuyerCommitPayment(buyerPublicKey, buyerAddress, uniqueId[c]).address

\* the size of the input the buyer adds to a second transaction, which spends
\* an output of the commitment address
BuyerInputBytes(c) == inputBytes([hasWitness |-> TRUE, script |-> CommitAddressOf(c)])

\* positions at which the first transaction of the current pass exists
FirstBuiltPcs == {"secondTxs", "thirdTx", "feeCalc"}

C11_FirstTxOutputs ==
    \A c \in calls :
        pc[c] \in FirstBuiltPcs =>
            LET outs == firstTx[c].outs
                n == NumInscriptions
            IN  /\ Len(outs) \in {n + 1, n + 2}
                /\ \A i \in 1..n :
                        /\ outs[i].address = CommitAddressOf(c)
                        /\ outs[i].value =
                                BASE_FEERATE * (getVBytes(inscriptionsPsbts[i]) + BuyerInputBytes(c))
                                    - getTotalFees(inscriptionsPsbts[i])
                /\ outs[n + 1] = Output(CommitAddressOf(c), CPFPFunding[c])
                /\ \A i \in 1..(n + 1) : outs[i] = firstOutputs[c][i]
                /\ Len(outs) = n + 2 =>
                        /\ outs[n + 2].address = buyerAddress
                        /\ outs[n + 2].value > 0

\* two inscriptions, a later pass (CPFPFunding grown), with a change output
C11_Witness ==
    \E c \in calls :
        /\ pc[c] = "feeCalc"
        /\ NumInscriptions = 2
        /\ iteration[c] >= 1
        /\ CPFPFunding[c] > InitialCPFPFunding
        /\ Len(firstTx[c].outs) = 4

(***************************************************************************)
(* C12.  As stated: validateInscriptionPsbts accepts the batch only if     *)
(* every seller PSBT has witness data on its first input, a non-empty      *)
(* index answer for its outpoint and a record with that outpoint owned by  *)
(* the address of the witness script; otherwise the call fails with one of *)
(* the three errors invalid seller PSBT / not found / does not match.      *)
(***************************************************************************)
\* what the validator requires of seller PSBT i
AcceptablePsbt(i) ==
    /\ inscriptionsPsbts[i].ins[1].hasWitness
    /\ Len(inscriptionIndex[i]) > 0
    /\ \E k \in 1..Len(inscriptionIndex[i]) :
            /\ inscriptionIndex[i][k].outpoint = Outpoint(inscriptionsPsbts[i].ins[1])
            /\ inscriptionIndex[i][k].owner = inscriptionsPsbts[i].ins[1].script

\* the call has come back from validateInscriptionPsbts without an error
ValidationPassed(c) == pc[c] = "validated" \/ unspentsAsked[c] > 0

\* the call has reached validateInscriptionPsbts
ReachedValidation ==
    /\ NumInscriptions > 0
    /\ buyerAddressType \in {"p2sh", "p2wsh", "p2wpkh", "p2tr"}

C12_ThreeValidationErrors ==
    \A c \in calls :
        /\ ValidationPassed(c) => \A i \in 1..NumInscriptions : AcceptablePsbt(i)
        /\ (ReachedValidation /\ pc[c] = "error"
                /\ \E i \in 1..NumInscriptions : ~AcceptablePsbt(i))
            => error[c] \in {"invalid seller psbt", "Inscription not found",
                              "Inscription does not match"}

(***************************************************************************)
(* C12, amended: the batch is accepted only if every seller PSBT has       *)
(* witness data on its first input, a non-empty index answer and a record  *)
(* with its outpoint owned by the address of the witness script.  A batch  *)
(* with one PSBT failing this is rejected as a whole, with one of four     *)
(* errors, each raised only for its own cause: invalid seller psbt (no     *)
(* witness data), invalid seller address in psbt (no address derivable     *)
(* from the witness script), not found (empty index answer), does not      *)
(* match (no record with that outpoint and owner).                         *)
(***************************************************************************)
C12_ValidationGate ==
    \A c \in calls :
        /\ ValidationPassed(c) => \A i \in 1..NumInscriptions : AcceptablePsbt(i)
        /\ (ReachedValidation /\ pc[c] = "error"
                /\ \E i \in 1..NumInscriptions : ~AcceptablePsbt(i))
            => error[c] \in {"invalid seller psbt", "invalid seller address in psbt",
                              "Inscription not found", "Inscription does not match"}
        /\ error[c] = "invalid seller psbt"
            => \E i \in 1..NumInscriptions : ~inscriptionsPsbts[i].ins[1].hasWitness
        /\ error[c] = "invalid seller address in psbt"
            => \E i \in 1..NumInscriptions :
                    /\ inscriptionsPsbts[i].ins[1].hasWitness
                    /\ inscriptionsPsbts[i].ins[1].script = NoAddress
        /\ error[c] = "Inscription not found"
            => /\ \E i \in 1..NumInscriptions : Len(inscriptionIndex[i]) = 0
               /\ \A i \in 1..NumInscriptions : inscriptionsPsbts[i].ins[1].hasWitness
        /\ error[c] = "Inscription does not match"
            => /\ \E i \in 1..NumInscriptions :
                        Len(inscriptionIndex[i]) > 0 /\ ~AcceptablePsbt(i)
               /\ \A i \in 1..NumInscriptions : inscriptionsPsbts[i].ins[1].hasWitness

\* two PSBTs, the first accepted, the second owned by somebody else
C12_Witness ==
    \E c \in calls :
        /\ error[c] = "Inscription does not match"
        /\ NumInscriptions = 2
        /\ AcceptablePsbt(1)
        /\ pendingIdx[c] = {}

(***************************************************************************)
(* C13.  getEscrowTaprootAddress is a pure function of (inscriptionOutpoint, *)
(* escrowPublicKey, network, chain): a call changes no field of the        *)
(* instance and nothing else of the state; calls with identical arguments  *)
(* return identical {address, merkleHash} whatever the instance holds at   *)
(* the time, and the same as the instance itself attaches to its escrow    *)
(* inputs and the seller side pays to; for a fixed key and network, calls  *)
(* with distinct outpoints return distinct addresses.                      *)
(***************************************************************************)
\* positions at which the third transaction of the current pass exists
ThirdBuiltPcs == {"feeCalc", "done"}

\* output 0 of seller PSBT i pays a script-tree address of the escrow key
PaysEscrowKey(i) ==
    /\ inscriptionsPsbts[i].outs[1].address.type = "p2tr"
    /\ inscriptionsPsbts[i].outs[1].address.key = toXOnly(escrowPublicKey)

\* a step that is a static getEscrowTaprootAddress call
EscrowCallStep == escrowResults' # escrowResults

\* everything but the record of the static calls
instanceState == <<inscriptionsPsbts, buyerAddressType, effectiveFeeRate, extraOutputs,
                   inscriptionIndex, sellerCall, sellerResult, sellerPc, shared, calls, pc,
                   uniqueId, pendingIdx, loopVars, built, response, error, asked>>

SameArgumentsSameResult ==
    \A r1, r2 \in escrowResults : r1.args = r2.args => r1.result = r2.result

\* a static call for the outpoint of seller PSBT i, with the key, network and
\* chain of the instance, returns what the instance and the seller side use
AgreesWithInstance ==
    \A r \in escrowResults : \A i \in 1..NumInscriptions :
        (/\ r.args.inscriptionOutpoint = Outpoint(inscriptionsPsbts[i].ins[1])
         /\ r.args.escrowPublicKey = escrowPublicKey
         /\ r.args.network = thisNetwork /\ r.args.chain = thisChain)
        => /\ PaysEscrowKey(i) =>
                    toOutputScript(r.result.address) = inscriptionsPsbts[i].outs[1].address
           /\ \A c \in calls :
                    pc[c] \in ThirdBuiltPcs =>
                        thirdTx[c].ins[i].tapMerkleRoot = r.result.merkleHash

DistinctOutpointsDistinctAddresses ==
    \A r1, r2 \in escrowResults :
        (/\ r1.args.inscriptionOutpoint # r2.args.inscriptionOutpoint
         /\ r1.args.escrowPublicKey = r2.args.escrowPublicKey
         /\ AddressNetwork(r1.args.network, r1.args.chain)
                = AddressNetwork(r2.args.network, r2.args.chain))
        => r1.result.address # r2.result.address

SellerSettled == sellerCall # None /\ sellerResult # None

\* the call of the example: the seller's own address receives the payment
ExampleSellerCall ==
    [inscriptionUtxo |-> InscriptionUtxo("insA", 0, 600, sellerAddress),
     sellerPublicKey |-> sellerPublicKey,
     sellerAddress |-> sellerAddress,
     receivePaymentAddress |-> sellerAddress,
     inscriptionPrice |-> 1000,
     escrowPublicKey |-> escrowPublicKey,
     network |-> thisNetwork,
     chain |-> thisChain]

C14_SellerPsbt ==
    SellerSettled =>
        LET utxo == sellerCall.inscriptionUtxo
            psbt == sellerResult.psbt
        IN  /\ ~utxo.present => sellerResult.error = "Inscription not found"
            /\ (utxo.present /\ utxo.address # sellerCall.sellerAddress)
                    => sellerResult.error = "Inscription does not belong to seller"
            /\ sellerResult.error # "" => psbt = NoTx
            /\ (utxo.present /\ utxo.address = sellerCall.sellerAddress) =>
                    /\ sellerResult.error = ""
                    /\ Len(psbt.ins) = 1
                    /\ psbt.ins[1].hash = utxo.txid
                    /\ psbt.ins[1].index = utxo.n
                    /\ psbt.ins[1].value = utxo.sats
                    /\ psbt.ins[1].script = sellerCall.sellerAddress
                    /\ psbt.ins[1].sighashType = SIGHASH_ALL_ANYONECANPAY
                    /\ Len(psbt.outs) = 2
                    /\ psbt.outs[1].address.type = "p2tr"
                    /\ psbt.outs[1].address.key = toXOnly(sellerCall.escrowPublicKey)
                    /\ psbt.outs[1].address.root =
                            TapTreeHash(toXOnly(sellerCall.escrowPublicKey),
                                        <<"inscriptionOutpoint", utxo.txid.tag, ToString(utxo.n)>>)
                    /\ psbt.outs[1].value = utxo.sats
                    /\ psbt.outs[2] = Output(sellerCall.receivePaymentAddress,
                                             sellerCall.inscriptionPrice)
                    /\ sellerCall = ExampleSellerCall =>
                            psbt = [SellerPsbt("ok", 1, 1000)
                                        EXCEPT !.outs[2].address = sellerAddress]

\* a seller with a taproot address sells the inscription at insC:0
C14_Witness ==
    /\ SellerSettled
    /\ sellerResult.error = ""
    /\ sellerCall.inscriptionUtxo.txid = ExternalTxid("insC")
    /\ sellerCall.sellerAddress = sellerTaprootAddress
    /\ Len(sellerResult.psbt.outs) = 2

(***************************************************************************)
(* C15.  createSecondTransaction only appends: in every second             *)
(* transaction built, the inputs of the seller PSBT come first and are     *)
(* unchanged, its outputs are unchanged, and exactly one input, the        *)
(* buyer's, follows; and no step of any call changes the seller PSBTs      *)
(* held in inscriptionsPsbts.                                              *)
(***************************************************************************)
\* positions at which the second transactions of the current pass exist
SecondBuiltPcs == {"thirdTx", "feeCalc", "done"}

C15_SellerPartKept ==
    \A c \in calls :
        pc[c] \in SecondBuiltPcs =>
            /\ Len(secondTxs[c]) = NumInscriptions
            /\ \A i \in 1..NumInscriptions :
                    LET second == secondTxs[c][i]
                        seller == inscriptionsPsbts[i]
                    IN  /\ Len(second.ins) = Len(seller.ins) + 1
                        /\ \A k \in 1..Len(seller.ins) : second.ins[k] = seller.ins[k]
                        /\ second.outs = seller.outs
                        /\ second.ins[Len(second.ins)].index = i - 1
                        /\ second.ins[Len(second.ins)].sighashType = SIGHASH_ALL
                        /\ second.ins[Len(second.ins)].script = CommitAddressOf(c)

C15_AppendOnly ==
    /\ []C15_SellerPartKept
    /\ [][inscriptionsPsbts' = inscriptionsPsbts]_vars

\* a seller PSBT with two inputs, after more than one pass of the loop
C15_Witness ==
    \E c \in calls :
        /\ pc[c] = "done"
        /\ iteration[c] >= 2
        /\ NumInscriptions = 2
        /\ Len(inscriptionsPsbts[2].ins) = 2
        /\ Len(secondTxs[c][2].ins) = 3

(***************************************************************************)
(* C16.  Calls that do not overlap: in every pass of the loop the builders *)
(* run in the order commitment address, first transaction, second          *)
(* transactions, third transaction, and the three transactions returned    *)
(* are those of the final pass: the buyer input of every returned second   *)
(* transaction and the last input of the returned third transaction carry  *)
(* the id of the returned first transaction and the merkle root of the     *)
(* call's commitment address, and the returned first transaction is the    *)
(* one built with the CPFPFunding of the final pass.                       *)
(***************************************************************************)
\* the steps of the loop, in the order of the code
LoopOrder ==
    {<<"loopBody", "coinSelect">>, <<"coinSelect", "secondTxs">>,
     <<"secondTxs", "thirdTx">>, <<"thirdTx", "feeCalc">>,
     <<"feeCalc", "loopBody">>, <<"feeCalc", "done">>}

\* merkle root of the commitment address of call c
CommitRootOf(c) == BuyerCommitPayment(buyerPublicKey, buyerAddress, uniqueId[c]).hash

ReturnedFromFinalPass(c) ==
    LET r == response[c]
        first == r.firstTransactionPSBTB64
        seconds == r.secondTransactionPSBTB64s
        third == r.thirdTransactionPSBTB64
        n == NumInscriptions
    IN  /\ r = BuildTransactionsResponse(firstTx[c], secondTxs[c], thirdTx[c])
        /\ Len(seconds) = n
        /\ SameIteration(r)
        /\ \A i \in 1..n :
                /\ seconds[i].ins[Len(seconds[i].ins)].tapMerkleRoot = CommitRootOf(c)
                /\ seconds[i].ins[Len(seconds[i].ins)].script = first.outs[i].address
        /\ third.ins[n + 1].tapMerkleRoot = CommitRootOf(c)
        /\ third.ins[n + 1].script = first.outs[n + 1].address
        /\ first.outs[n + 1].value = CPFPFunding[c] - extraCPFPFunding[c]

C16_SamePassChain ==
    /\ [](\A c \in calls : response[c] # None => ReturnedFromFinalPass(c))
    /\ [][\A c \in CallIds :
            (pc[c] \in LoopPcs /\ pc'[c] # pc[c])
                => (pc'[c] = "error" \/ <<pc[c], pc'[c]>> \in LoopOrder)]_vars

\* two inscriptions, returned after three passes or more
C16_Witness ==
    \E c \in calls :
        /\ response[c] # None
        /\ iteration[c] >= 3
        /\ NumInscriptions = 2

(***************************************************************************)
(* C17.  As stated: when calls on one instance overlap, the transactions   *)
(* of each call are built from what that call wrote: the inputs of its     *)
(* first transaction come from the UTXO set its own getBuyerUtxos stored,  *)
(* and the buyer inputs of its second transactions and the funding input   *)
(* of its third transaction carry the id of its own first transaction and  *)
(* the merkle root of its own commitment address.                          *)
(***************************************************************************)
UsesOwnUtxos(c) ==
    pc[c] \in FirstBuiltPcs \cup {"coinSelect", "done"} =>
        coinInputs[c] = [k \in 1..Len(fetchedUtxos[c]) |->
                            processInput(fetchedUtxos[c][k], buyerAddress, buyerPublicKey)]

UsesOwnFirstTxId(c) ==
    /\ pc[c] \in SecondBuiltPcs =>
            \A i \in 1..Len(secondTxs[c]) :
                secondTxs[c][i].ins[Len(secondTxs[c][i].ins)].hash = TxId(firstTx[c], TRUE)
    /\ pc[c] \in ThirdBuiltPcs =>
            thirdTx[c].ins[Len(thirdTx[c].ins)].hash = TxId(firstTx[c], TRUE)

UsesOwnCommitPayment(c) ==
    /\ pc[c] \in SecondBuiltPcs =>
            \A i \in 1..Len(secondTxs[c]) :
                secondTxs[c][i].ins[Len(secondTxs[c][i].ins)].tapMerkleRoot = CommitRootOf(c)
    /\ pc[c] \in ThirdBuiltPcs =>
            thirdTx[c].ins[Len(thirdTx[c].ins)].tapMerkleRoot = CommitRootOf(c)

C17_NoCrossCallReads ==
    \A c \in calls : UsesOwnUtxos(c) /\ UsesOwnFirstTxId(c) /\ UsesOwnCommitPayment(c)

(***************************************************************************)
(* C18.  As stated: in every third transaction built, escrow input i       *)
(* spends output 0 of second transaction i, the script of that output is   *)
(* the escrow address getEscrowTaprootAddress derives from the first-input *)
(* outpoint of seller PSBT i and escrowPublicKey, and the tapMerkleRoot of *)
(* the input is the merkle hash of that same address; for every seller     *)
(* PSBT that passed validateInscriptionPsbts.                              *)
(***************************************************************************)
\* the escrow binding of seller PSBT i
EscrowBinding(i) ==
    getEscrowTaprootAddress(Outpoint(inscriptionsPsbts[i].ins[1]), escrowPublicKey,
                            thisNetwork, thisChain)

\* escrow input i of the third transaction of call c spends the escrow binding
SpendsEscrowBinding(c, i) ==
    /\ thirdTx[c].ins[i].hash = TxId(secondTxs[c][i], FALSE)
    /\ thirdTx[c].ins[i].index = 0
    /\ thirdTx[c].ins[i].script = secondTxs[c][i].outs[1].address
    /\ thirdTx[c].ins[i].script = toOutputScript(EscrowBinding(i).address)
    /\ thirdTx[c].ins[i].tapMerkleRoot = thirdTx[c].ins[i].script.root

C18_EscrowInputMatchesOutput ==
    \A c \in calls :
        pc[c] \in ThirdBuiltPcs =>
            \A i \in 1..NumInscriptions : SpendsEscrowBinding(c, i)

(***************************************************************************)
(* C19.  Within one call, for calls that do not overlap: the CPFP-funding  *)
(* output of the first transaction carries the running total CPFPFunding,  *)
(* which is 600 in the first pass; a pass that is followed by another adds *)
(* its extra funding, which is positive, so the total is strictly greater  *)
(* in each later pass; the total changes at no other place of the loop and *)
(* falls only when the loop is left, after the last transaction was built; *)
(* and every pass hands the same buyer inputs to the coin selection.       *)
(***************************************************************************)
\* the value of the CPFP-funding output of the first transaction of call c
FundingOutputValue(c) == firstTx[c].outs[NumInscriptions + 1].value

\* call c goes from the end of one pass to the start of the next
NextPass(c) == pc[c] = "feeCalc" /\ pc'[c] = "loopBody"

\* call c starts a later pass: createFirstTransaction maps this.buyerUtxos again
StartsLaterPass(c) == pc[c] = "loopBody" /\ pc'[c] = "coinSelect" /\ iteration[c] >= 1

C19_FundingGrows ==
    /\ [](\A c \in calls :
            /\ (pc[c] \in LoopPcs /\ iteration[c] = 0) => CPFPFunding[c] = InitialCPFPFunding
            /\ pc[c] \in FirstBuiltPcs => FundingOutputValue(c) = CPFPFunding[c])
    /\ [][\A c \in CallIds :
            /\ NextPass(c) =>
                    /\ extraCPFPFunding'[c] > 0
                    /\ CPFPFunding'[c] = FundingOutputValue(c) + extraCPFPFunding'[c]
                    /\ CPFPFunding'[c] > FundingOutputValue(c)
            /\ (pc[c] \in LoopPcs /\ ~NextPass(c) /\ pc'[c] \in LoopPcs) =>
                    CPFPFunding'[c] = CPFPFunding[c]
            /\ (pc[c] \in LoopPcs /\ CPFPFunding'[c] < CPFPFunding[c]) =>
                    /\ pc'[c] = "done"
                    /\ firstTx'[c] = firstTx[c]
            /\ StartsLaterPass(c) => coinInputs'[c] = coinInputs[c]]_vars

\* a third pass has built its first transaction: the funding grew twice
C19_Witness ==
    \E c \in calls :
        /\ pc[c] = "secondTxs"
        /\ iteration[c] = 2
        /\ FundingOutputValue(c) > InitialCPFPFunding + extraCPFPFunding[c]
        /\ extraCPFPFunding[c] > 0
        /\ Len(coinInputs[c]) >= 1
====
